---------------------------- MODULE Spec2Model ----------------------------
(***************************************************************************)
(* Sora History Bot (src/app.py): the video catalog, the selection tokens  *)
(* carried by the inline buttons, and the /upload conversation.            *)
(*                                                                         *)
(* Strings of the program are sequences of one-character strings, so that  *)
(* len(), slicing, startswith(), endswith(), lower(), Path.name, Path.stem *)
(* and Path.suffix are computed rather than assumed.  An optional value    *)
(* (None or x) is the empty sequence or the one-element sequence <<x>>.    *)
(***************************************************************************)
EXTENDS Integers, Sequences, FiniteSets, TLC

(***************************************************************************)
(* Bounds of the model.                                                    *)
(***************************************************************************)
MaxFiles == 3        \* files in the directory when an upload or a placement starts
MaxFaults == 1       \* out-of-band placements, deletions and torn writes

(***************************************************************************)
(* Optional values.                                                        *)
(***************************************************************************)
None == <<>>
Some(x) == <<x>>
IsNone(o) == o = <<>>
Get(o) == o[1]

(***************************************************************************)
(* Characters and strings.                                                 *)
(***************************************************************************)
Ord(c) ==
    CASE c = "." -> 46  [] c = "/" -> 47  [] c = "1" -> 49  [] c = "2" -> 50
      [] c = "3" -> 51  [] c = "4" -> 52  [] c = "5" -> 53  [] c = ":" -> 58
      [] c = "A" -> 65  [] c = "H" -> 72  [] c = "M" -> 77  [] c = "P" -> 80
      [] c = "V" -> 86  [] c = "_" -> 95  [] c = "a" -> 97  [] c = "d" -> 100
      [] c = "e" -> 101 [] c = "i" -> 105 [] c = "l" -> 108 [] c = "m" -> 109
      [] c = "o" -> 111 [] c = "p" -> 112 [] c = "s" -> 115 [] c = "t" -> 116
      [] c = "u" -> 117 [] c = "v" -> 118 [] c = "x" -> 120 [] OTHER -> 63

\* str.lower() on one character
LowerChar(c) ==
    CASE c = "A" -> "a" [] c = "H" -> "h" [] c = "M" -> "m" [] c = "P" -> "p"
      [] c = "V" -> "v" [] OTHER -> c

Lower(s) == [i \in 1..Len(s) |-> LowerChar(s[i])]

StartsWith(s, p) == Len(s) >= Len(p) /\ SubSeq(s, 1, Len(p)) = p

EndsWith(s, p) == Len(s) >= Len(p) /\ SubSeq(s, Len(s) - Len(p) + 1, Len(s)) = p

\* s[k:] of Python, k counted from 0
DropPrefix(s, k) == SubSeq(s, k + 1, Len(s))

\* str(i) for the collision counter
Digit(d) ==
    CASE d = 0 -> "0" [] d = 1 -> "1" [] d = 2 -> "2" [] d = 3 -> "3"
      [] d = 4 -> "4" [] d = 5 -> "5" [] d = 6 -> "6" [] d = 7 -> "7"
      [] d = 8 -> "8" [] OTHER -> "9"

Digits(i) == IF i < 10 THEN <<Digit(i)>> ELSE <<Digit(i \div 10), Digit(i % 10)>>

\* a < b in Python's string order
RECURSIVE StrLess(_, _)
StrLess(a, b) ==
    IF a = <<>> THEN b # <<>>
    ELSE IF b = <<>> THEN FALSE
    ELSE IF Ord(a[1]) # Ord(b[1]) THEN Ord(a[1]) < Ord(b[1])
    ELSE StrLess(Tail(a), Tail(b))

\* sorted(S) for a finite set of strings
RECURSIVE Sorted(_)
Sorted(S) ==
    IF S = {} THEN <<>>
    ELSE LET m == CHOOSE x \in S : \A y \in S \ {x} : StrLess(x, y)
         IN <<m>> \o Sorted(S \ {m})

(***************************************************************************)
(* pathlib on a POSIX system.                                              *)
(***************************************************************************)
\* index of the first "/" of s, or Len(s) + 1
FirstSlash(s) ==
    IF \E i \in 1..Len(s) : s[i] = "/"
    THEN CHOOSE i \in 1..Len(s) : s[i] = "/" /\ \A j \in 1..(i - 1) : s[j] # "/"
    ELSE Len(s) + 1

\* Path(s).parts without the root: empty and "." components are dropped
RECURSIVE Parts(_)
Parts(s) ==
    IF s = <<>> THEN <<>>
    ELSE LET i == FirstSlash(s)
             head == SubSeq(s, 1, i - 1)
             rest == SubSeq(s, i + 1, Len(s))
         IN (IF head = <<>> \/ head = <<".">> THEN <<>> ELSE <<head>>) \o Parts(rest)

\* PathName that keeps the directory components
PathNameRaw(s) == s

\* Path(s).name
PathName(s) == LET p == Parts(s) IN IF p = <<>> THEN <<>> ELSE p[Len(p)]

\* index of the last "." of name, or 0
LastDot(name) ==
    IF \E i \in 1..Len(name) : name[i] = "."
    THEN CHOOSE i \in 1..Len(name) :
             name[i] = "." /\ \A j \in (i + 1)..Len(name) : name[j] # "."
    ELSE 0

\* PurePath.suffix of a final component
Suffix(name) ==
    LET i == LastDot(name)
    IN IF 1 < i /\ i < Len(name) THEN SubSeq(name, i, Len(name)) ELSE <<>>

\* PurePath.stem of a final component
Stem(name) == SubSeq(name, 1, Len(name) - Len(Suffix(name)))


(***************************************************************************)
(* hashlib.sha256(name.encode()).hexdigest(): 64 lowercase hexadecimal     *)
(* digits, the same for the same name.  The digits are computed from two   *)
(* checksums of the name; SHA-256 itself is not reproduced, only its       *)
(* length, its alphabet and its determinism.                               *)
(***************************************************************************)
DigestLen == 64

HexChar(d) ==
    CASE d = 0 -> "0" [] d = 1 -> "1" [] d = 2 -> "2" [] d = 3 -> "3"
      [] d = 4 -> "4" [] d = 5 -> "5" [] d = 6 -> "6" [] d = 7 -> "7"
      [] d = 8 -> "8" [] d = 9 -> "9" [] d = 10 -> "a" [] d = 11 -> "b"
      [] d = 12 -> "c" [] d = 13 -> "d" [] d = 14 -> "e" [] OTHER -> "f"

RECURSIVE CheckSum(_, _, _)
CheckSum(s, i, weighted) ==
    IF i > Len(s) THEN 0
    ELSE (IF weighted THEN i ELSE 1) * Ord(s[i]) + CheckSum(s, i + 1, weighted)

hexdigest(name) ==
    LET a == CheckSum(name, 1, FALSE)
        b == CheckSum(name, 1, TRUE)
    IN [k \in 1..DigestLen |-> HexChar((a * k + b + Len(name)) % 16)]

(***************************************************************************)
(* Constants of the program.                                               *)
(***************************************************************************)
UPLOAD_WAITING == "AwaitingFile"     \* the conversation state of /upload
END == "Idle"                        \* ConversationHandler.END: no conversation
VIDEO_DIR == <<"v", "i", "d", "e", "o", "s">>
MP4 == <<".", "m", "p", "4">>
MaxData == 60                        \* the callback_data ceiling of start()
max_bytes == 50 * 1024 * 1024
ADMIN_ID == 1                        \* int(os.getenv("ADMIN_ID"))
VPrefix == <<"V", ":">>
HPrefix == <<"H", ":">>

(***************************************************************************)
(* The inputs the transport delivers.                                      *)
(***************************************************************************)
Pad(k) == [i \in 1..k |-> "x"]
NameA == <<"a">> \o MP4                               \* a.mp4
NameA1 == <<"a", "_", "1">> \o MP4                    \* a_1.mp4
NameA2 == <<"a", "_", "2">> \o MP4                    \* a_2.mp4
Name58 == Pad(54) \o MP4                              \* 58 characters
Name59 == Pad(55) \o MP4                              \* 59 characters
Name64 == Pad(60) \o MP4                              \* 64 characters
NameMov == <<"a", ".", "m", "o", "v">>                \* a.mov
NameUpper == <<"A", ".", "M", "P", "4">>              \* A.MP4
NameTraversal == <<".", ".", "/">> \o NameA           \* ../a.mp4
FileId == <<"i", "d">>                                \* msg.video.file_id

Users == {ADMIN_ID, 2}

MimeVideo == <<"v", "i", "d", "e", "o", "/", "m", "p", "4">>
MimeText == <<"t", "e", "x", "t", "/", "x">>

\* file sizes around the ceiling
FileSizes == {max_bytes, max_bytes + 1}

\* msg.video or msg.document with its metadata (each optional) and the bytes
\* Telegram holds
Att(kind, file_name, mime_type, file_size, bytes) ==
    [kind |-> kind, file_name |-> file_name, mime_type |-> mime_type,
     file_size |-> file_size, bytes |-> bytes]

Attachments ==
    { Att("document", Some(NameA), Some(MimeVideo), Some(max_bytes), max_bytes),
      Att("document", Some(NameA), Some(MimeVideo), Some(max_bytes + 1), max_bytes + 1),
      Att("document", Some(NameA), Some(MimeVideo), None, max_bytes),
      Att("document", Some(NameMov), Some(MimeText), Some(max_bytes), max_bytes),
      Att("document", Some(NameMov), None, Some(max_bytes + 1), max_bytes + 1),
      Att("document", Some(NameMov), Some(MimeVideo), Some(max_bytes), max_bytes),
      Att("video", Some(NameMov), None, Some(max_bytes), max_bytes),
      Att("document", Some(NameUpper), None, Some(max_bytes), max_bytes),
      Att("document", Some(NameTraversal), Some(MimeVideo), Some(max_bytes), max_bytes),
      Att("document", None, Some(MimeText), Some(max_bytes), max_bytes) }

\* names an out-of-band actor drops into the directory
ExternalNames == {NameA, Name58, Name59, Name64}


(***************************************************************************)
(* The state.                                                              *)
(***************************************************************************)
VARIABLES
    files,           \* the video directory: file name -> size in bytes
    video_hash_map,  \* hash -> file name, of this process run
    conv,            \* the /upload conversation of each user
    pc,              \* "polling", "handled", or "downloading" inside receive_upload
    issued,          \* the H: buttons in the chats: [data, name, live]
    last,            \* the update being handled and what the bot answered
    faults           \* out-of-band changes of the directory so far

vars == <<files, video_hash_map, conv, pc, issued, last, faults>>

\* update: what the transport delivered; handler: the handler main() routed it
\* to; reply: what the bot answered; arg: the attachment, the callback data or
\* the keyboard; name: the file name the handler worked on
Event(update, handler, user, reply, arg, name) ==
    [update |-> update, handler |-> handler, user |-> user, reply |-> reply,
     arg |-> arg, name |-> name]

NoEvent == Event("none", "none", ADMIN_ID, "none", None, None)

\* VIDEO_DIR.mkdir(parents=True, exist_ok=True): the directory is new, or is
\* the one an earlier deployment left
InitialCatalogs == {[n \in {} |-> 0], [n \in {Name59} |-> max_bytes]}

Init ==
    /\ files \in InitialCatalogs
    /\ video_hash_map = [h \in {} |-> <<>>]
    /\ conv = [u \in Users |-> END]
    /\ pc = "polling"
    /\ issued = {}
    /\ last = NoEvent
    /\ faults = 0

(***************************************************************************)
(* list_videos and the selection tokens.                                   *)
(***************************************************************************)
list_videos(dir) == Sorted({n \in DOMAIN dir : EndsWith(n, MP4)})

\* TooLong with the check made on the raw name instead of the prefixed token
TooLongRawName(name) == Len(name) > MaxData

\* len(data) > 60 for data = "V:" + name
TooLong(name) == Len(VPrefix \o name) > MaxData

\* the callback_data start() gives the button of name
Encode(name) ==
    IF TooLong(name) THEN HPrefix \o hexdigest(name) ELSE VPrefix \o name

\* video_hash_map after the loop of start() over videos[i..]
RECURSIVE Register(_, _, _)
Register(map, videos, i) ==
    IF i > Len(videos) THEN map
    ELSE IF TooLong(videos[i])
         THEN Register((hexdigest(videos[i]) :> videos[i]) @@ map, videos, i + 1)
         ELSE Register(map, videos, i + 1)

\* Decode with video_hash_map.get(h, h): an unregistered hash is taken as the name
DecodeDefaultsToHash(data, map) ==
    IF StartsWith(data, VPrefix)
    THEN [ok |-> TRUE, name |-> DropPrefix(data, 2), why |-> "none"]
    ELSE IF StartsWith(data, HPrefix)
    THEN LET h == DropPrefix(data, 2)
         IN IF h \in DOMAIN map /\ map[h] # <<>>
            THEN [ok |-> TRUE, name |-> map[h], why |-> "none"]
            ELSE [ok |-> TRUE, name |-> h, why |-> "none"]
    ELSE [ok |-> FALSE, name |-> <<>>, why |-> "unknown_action"]

\* Decode with the V: prefix sliced one character too far
DecodeOffByOne(data, map) ==
    IF StartsWith(data, VPrefix)
    THEN [ok |-> TRUE, name |-> DropPrefix(data, 3), why |-> "none"]
    ELSE IF StartsWith(data, HPrefix)
    THEN LET h == DropPrefix(data, 3)
         IN IF h \in DOMAIN map /\ map[h] # <<>>
            THEN [ok |-> TRUE, name |-> map[h], why |-> "none"]
            ELSE [ok |-> FALSE, name |-> <<>>, why |-> "cannot_find"]
    ELSE [ok |-> FALSE, name |-> <<>>, why |-> "unknown_action"]

\* the file name callback_query_handler reads from data, or why it has none
Decode(data, map) ==
    IF StartsWith(data, VPrefix)
    THEN [ok |-> TRUE, name |-> DropPrefix(data, 2), why |-> "none"]
    ELSE IF StartsWith(data, HPrefix)
    THEN LET h == DropPrefix(data, 2)
         IN IF h \in DOMAIN map /\ map[h] # <<>>
            THEN [ok |-> TRUE, name |-> map[h], why |-> "none"]
            ELSE [ok |-> FALSE, name |-> <<>>, why |-> "cannot_find"]
    ELSE [ok |-> FALSE, name |-> <<>>, why |-> "unknown_action"]

\* SendRefused with a ceiling of 64 MiB
SendRefused64MiB(size) == size > 64 * 1024 * 1024

\* size > max_bytes of callback_query_handler
SendRefused(size) == size > max_bytes

start(u) ==
    /\ LET videos == list_videos(files)
           keyboard == [i \in 1..Len(videos) |->
                           [text |-> videos[i], data |-> Encode(videos[i])]]
       IN IF videos = <<>>
          THEN /\ last' = Event("/start", "start", u, "no_videos", None, None)
               /\ UNCHANGED <<video_hash_map, issued>>
          ELSE /\ video_hash_map' = Register(video_hash_map, videos, 1)
               /\ issued' = issued \cup
                      {[data |-> keyboard[i].data, name |-> videos[i], live |-> TRUE] :
                          i \in {j \in 1..Len(videos) : StartsWith(keyboard[j].data, HPrefix)}}
               /\ last' = Event("/start", "start", u, "listing", Some(keyboard), None)
    /\ pc' = "handled"
    /\ UNCHANGED <<files, conv, faults>>

help_cmd(u) ==
    /\ last' = Event("/help", "help_cmd", u, "help", None, None)
    /\ pc' = "handled"
    /\ UNCHANGED <<files, video_hash_map, conv, issued, faults>>

callback_query_handler(u, data) ==
    /\ LET d == Decode(data, video_hash_map)
       IN IF ~d.ok
          THEN last' = Event("callback", "callback_query_handler", u, d.why,
                             Some(data), None)
          ELSE IF d.name \notin DOMAIN files
          THEN last' = Event("callback", "callback_query_handler", u, "file_not_found",
                             Some(data), Some(d.name))
          ELSE IF SendRefused(files[d.name])
          THEN last' = Event("callback", "callback_query_handler", u, "larger_than_50MB",
                             Some(data), Some(d.name))
          ELSE \E sent \in {"video", "failed_to_send"} :
                  last' = Event("callback", "callback_query_handler", u, sent,
                                Some(data), Some(d.name))
    /\ pc' = "handled"
    /\ UNCHANGED <<files, video_hash_map, conv, issued, faults>>

(***************************************************************************)
(* The /upload conversation.                                               *)
(***************************************************************************)
\* Unauthorized with only the "admin_id is None" half of the test
UnauthorizedOnlyWhenUnset(u) == FALSE

\* admin_id is None or user.id != admin_id
Unauthorized(u) == u # ADMIN_ID

\* original_name of receive_upload, defaults included
OriginalName(att) ==
    IF att.kind = "video"
    THEN IF IsNone(att.file_name) \/ att.file_name = Some(<<>>)
         THEN <<"v", "i", "d", "e", "o", "_">> \o FileId \o MP4
         ELSE Get(att.file_name)
    ELSE IF IsNone(att.file_name)
         THEN <<"v", "i", "d", "e", "o", "_", "u", "p", "l", "o", "a", "d">> \o MP4
         ELSE Get(att.file_name)

\* TypeRejected tried only after the size check has passed
TypeRejectedUnlessTooLarge(att) ==
    /\ ~EndsWith(Lower(OriginalName(att)), MP4)
    /\ att.kind = "document"
    /\ ~(~IsNone(att.mime_type) /\ StartsWith(Get(att.mime_type), <<"v", "i", "d", "e", "o">>))
    /\ ~(~IsNone(att.file_size) /\ Get(att.file_size) > max_bytes)

\* TypeRejected with the MIME test inverted
TypeRejectedInverted(att) ==
    /\ ~EndsWith(Lower(OriginalName(att)), MP4)
    /\ att.kind = "document"
    /\ ~IsNone(att.mime_type) /\ StartsWith(Get(att.mime_type), <<"v", "i", "d", "e", "o">>)

\* the extension/MIME check that answers "Only .mp4 video files are accepted"
TypeRejected(att) ==
    /\ ~EndsWith(Lower(OriginalName(att)), MP4)
    /\ att.kind = "document"
    /\ ~(~IsNone(att.mime_type) /\ StartsWith(Get(att.mime_type), <<"v", "i", "d", "e", "o">>))

\* SizeRejected with >= for >
SizeRejectedAtCeiling(att) ==
    /\ ~IsNone(att.file_size)
    /\ Get(att.file_size) # 0
    /\ Get(att.file_size) >= max_bytes

\* file_size and file_size > max_bytes
SizeRejected(att) ==
    /\ ~IsNone(att.file_size)
    /\ Get(att.file_size) # 0
    /\ Get(att.file_size) > max_bytes

\* dest.exists() for dest = VIDEO_DIR / leaf: the directory itself and its
\* parent exist, a file exists when the directory holds it
DestExists(leaf, dir) == leaf = <<>> \/ leaf = <<".", ".">> \/ leaf \in DOMAIN dir

\* the final component of VIDEO_DIR / leaf
DestName(leaf) == IF leaf = <<>> THEN VIDEO_DIR ELSE leaf

\* the while loop of receive_upload from counter i on
RECURSIVE Probe(_, _, _, _)
Probe(stem, suffix, i, dir) ==
    LET cand == stem \o <<"_">> \o Digits(i) \o suffix
    IN IF ~DestExists(cand, dir) THEN cand ELSE Probe(stem, suffix, i + 1, dir)

\* ReserveDestination without the existence check
ReserveWithoutCheck(leaf, dir) == leaf

\* ReserveDestination with the counter started at 0
ReserveFromZero(leaf, dir) ==
    IF DestExists(leaf, dir)
    THEN Probe(Stem(DestName(leaf)), Suffix(DestName(leaf)), 0, dir)
    ELSE leaf

\* dest.name after the collision check of receive_upload
ReserveDestination(leaf, dir) ==
    IF DestExists(leaf, dir)
    THEN Probe(Stem(DestName(leaf)), Suffix(DestName(leaf)), 1, dir)
    ELSE leaf

upload_entry(u) ==
    /\ IF Unauthorized(u)
       THEN /\ last' = Event("/upload", "upload_entry", u, "not_authorized_upload", None, None)
            /\ conv' = [conv EXCEPT ![u] = END]
       ELSE /\ last' = Event("/upload", "upload_entry", u, "prompt", None, None)
            /\ conv' = [conv EXCEPT ![u] = UPLOAD_WAITING]
    /\ pc' = "handled"
    /\ UNCHANGED <<files, video_hash_map, issued, faults>>

\* cancel that answers but leaves the conversation open
cancel_keeps_session(u) ==
    /\ last' = Event("/cancel", "cancel", u, "cancelled", None, None)
    /\ pc' = "handled"
    /\ UNCHANGED <<files, video_hash_map, conv, issued, faults>>

cancel(u) ==
    /\ last' = Event("/cancel", "cancel", u, "cancelled", None, None)
    /\ conv' = [conv EXCEPT ![u] = END]
    /\ pc' = "handled"
    /\ UNCHANGED <<files, video_hash_map, issued, faults>>

unknown(u, command) ==
    /\ last' = Event(command, "unknown", u, "unknown_command", None, None)
    /\ pc' = "handled"
    /\ UNCHANGED <<files, video_hash_map, conv, issued, faults>>

\* receive_upload up to the start of the download; get_file() may raise
receive_upload(u, att) ==
    IF Unauthorized(u)
    THEN /\ last' = Event("attachment", "receive_upload", u, "not_authorized", Some(att), None)
         /\ conv' = [conv EXCEPT ![u] = END]
         /\ pc' = "handled"
         /\ UNCHANGED <<files, video_hash_map, issued, faults>>
    ELSE IF TypeRejected(att)
    THEN /\ last' = Event("attachment", "receive_upload", u, "only_mp4", Some(att), None)
         /\ conv' = [conv EXCEPT ![u] = UPLOAD_WAITING]
         /\ pc' = "handled"
         /\ UNCHANGED <<files, video_hash_map, issued, faults>>
    ELSE IF SizeRejected(att)
    THEN /\ last' = Event("attachment", "receive_upload", u, "file_too_large", Some(att), None)
         /\ conv' = [conv EXCEPT ![u] = END]
         /\ pc' = "handled"
         /\ UNCHANGED <<files, video_hash_map, issued, faults>>
    ELSE \E got_file \in BOOLEAN :
            IF ~got_file
            THEN /\ last' = Event("attachment", "receive_upload", u, "failed_to_save",
                                  Some(att), None)
                 /\ conv' = [conv EXCEPT ![u] = END]
                 /\ pc' = "handled"
                 /\ UNCHANGED <<files, video_hash_map, issued, faults>>
            ELSE /\ Cardinality(DOMAIN files) < MaxFiles
                 /\ last' = Event("attachment", "receive_upload", u, "none", Some(att),
                                  Some(ReserveDestination(PathName(OriginalName(att)), files)))
                 /\ pc' = "downloading"
                 /\ UNCHANGED <<files, video_hash_map, conv, issued, faults>>

\* a torn write leaves fewer bytes than the attachment has
Truncated(bytes) == bytes \div 2

\* f.download_to_drive(custom_path=str(dest)) returns: the file is written
\* over whatever dest names by now, and the handler ends the conversation
download_to_drive ==
    /\ pc = "downloading"
    /\ files' = (Get(last.name) :> Get(last.arg).bytes) @@ files
    /\ last' = [last EXCEPT !.reply = "saved"]
    /\ conv' = [conv EXCEPT ![last.user] = END]
    /\ pc' = "handled"
    /\ UNCHANGED <<video_hash_map, issued, faults>>

\* download_raises with an except branch that leaves the conversation open
download_raises_keeps_session ==
    /\ pc = "downloading"
    /\ \E torn \in BOOLEAN :
          IF torn
          THEN /\ faults < MaxFaults
               /\ files' = (Get(last.name) :> Truncated(Get(last.arg).bytes)) @@ files
               /\ faults' = faults + 1
          ELSE UNCHANGED <<files, faults>>
    /\ last' = [last EXCEPT !.reply = "failed_to_save"]
    /\ pc' = "handled"
    /\ UNCHANGED <<video_hash_map, conv, issued>>

\* f.download_to_drive raises: before anything is written, or in the middle
\* of the write
download_raises ==
    /\ pc = "downloading"
    /\ \E torn \in BOOLEAN :
          IF torn
          THEN /\ faults < MaxFaults
               /\ files' = (Get(last.name) :> Truncated(Get(last.arg).bytes)) @@ files
               /\ faults' = faults + 1
          ELSE UNCHANGED <<files, faults>>
    /\ last' = [last EXCEPT !.reply = "failed_to_save"]
    /\ conv' = [conv EXCEPT ![last.user] = END]
    /\ pc' = "handled"
    /\ UNCHANGED <<video_hash_map, issued>>

(***************************************************************************)
(* The routing main() sets up: the handlers of group 0 in their order      *)
(* start, help, the upload conversation, the callback queries, unknown.    *)
(* Updates are handled one at a time.                                      *)
(***************************************************************************)
OnStart(u) == pc = "polling" /\ start(u)

OnHelp(u) == pc = "polling" /\ help_cmd(u)

\* /upload is an entry point: it is tried only while u has no conversation
OnUpload(u) ==
    /\ pc = "polling"
    /\ IF conv[u] = END THEN upload_entry(u) ELSE unknown(u, "/upload")

\* /cancel is a fallback: it is tried only inside the conversation
OnCancel(u) ==
    /\ pc = "polling"
    /\ IF conv[u] = UPLOAD_WAITING THEN cancel(u) ELSE unknown(u, "/cancel")

OnOtherCommand(u) == pc = "polling" /\ unknown(u, "/other")

\* OnAttachment with the MessageHandler registered outside the conversation
OnAttachmentAnyState(u, att) == pc = "polling" /\ receive_upload(u, att)

\* a video or a document: handled only in UPLOAD_WAITING, dropped otherwise
OnAttachment(u, att) ==
    /\ pc = "polling"
    /\ IF conv[u] = UPLOAD_WAITING
       THEN receive_upload(u, att)
       ELSE /\ last' = Event("attachment", "none", u, "none", None, None)
            /\ pc' = "handled"
            /\ UNCHANGED <<files, video_hash_map, conv, issued, faults>>

\* a click on a button
OnCallback(u, data) == pc = "polling" /\ callback_query_handler(u, data)

\* the handler has returned: the application takes the next update
Poll ==
    /\ pc = "handled"
    /\ pc' = "polling"
    /\ last' = NoEvent
    /\ UNCHANGED <<files, video_hash_map, conv, issued, faults>>

(***************************************************************************)
(* The environment.                                                        *)
(***************************************************************************)
\* the process stops and main() runs again: module state is lost
Restart ==
    /\ pc = "polling"
    /\ video_hash_map' = [h \in {} |-> <<>>]
    /\ conv' = [u \in Users |-> END]
    /\ issued' = {[t EXCEPT !.live = FALSE] : t \in issued}
    /\ UNCHANGED <<files, pc, last, faults>>

\* a file lands in the directory out of band
ExternalPlace(n, size) ==
    /\ pc \in {"polling", "downloading"}
    /\ faults < MaxFaults
    /\ n \notin DOMAIN files
    /\ Cardinality(DOMAIN files) < MaxFiles
    /\ files' = (n :> size) @@ files
    /\ faults' = faults + 1
    /\ UNCHANGED <<video_hash_map, conv, pc, issued, last>>

\* a file is removed out of band
ExternalDelete(n) ==
    /\ pc \in {"polling", "downloading"}
    /\ faults < MaxFaults
    /\ n \in DOMAIN files
    /\ files' = [x \in DOMAIN files \ {n} |-> files[x]]
    /\ faults' = faults + 1
    /\ UNCHANGED <<video_hash_map, conv, pc, issued, last>>

\* what a user can click: an H: button of some listing, a V: button of a
\* file the directory holds or held, or a button of another origin
ClickData ==
    {t.data : t \in issued}
        \cup {VPrefix \o n : n \in {m \in DOMAIN files \cup {NameA} :
                                       EndsWith(m, MP4) /\ ~TooLong(m)}}
        \cup {<<>>}

Next ==
    \/ \E u \in Users : OnStart(u)
    \/ \E u \in Users : OnHelp(u)
    \/ \E u \in Users : OnUpload(u)
    \/ \E u \in Users : OnCancel(u)
    \/ \E u \in Users : OnOtherCommand(u)
    \/ \E u \in Users, att \in Attachments : OnAttachment(u, att)
    \/ \E u \in Users, data \in ClickData : OnCallback(u, data)
    \/ download_to_drive
    \/ download_raises
    \/ Poll
    \/ Restart
    \/ \E n \in ExternalNames, size \in FileSizes : ExternalPlace(n, size)
    \/ \E n \in DOMAIN files : ExternalDelete(n)

Spec == Init /\ [][Next]_vars


(***************************************************************************)
(* What the claims read from the state.                                    *)
(***************************************************************************)
MiB50 == 50 * 1024 * 1024

\* the handler named h has just run (or, for receive_upload, is downloading)
Handled(h) == pc \in {"handled", "downloading"} /\ last.handler = h

\* start() has just sent a listing; its buttons
Listing == Handled("start") /\ last.reply = "listing"
Buttons == Get(last.arg)

\* the attachment receive_upload is working on, its candidate leaf name and
\* the destination it reserved
TheAtt == Get(last.arg)
TheLeaf == PathName(OriginalName(TheAtt))
Numbered(leaf, k) == Stem(leaf) \o <<"_">> \o Digits(k) \o Suffix(leaf)

\* receive_upload passes from the collision check to the download
Reserves == pc = "polling" /\ pc' = "downloading"
LeafThen == PathName(OriginalName(Get(last'.arg)))
DestThen == Get(last'.name)

\* a handler runs from start to end in this step
Handles(h) == pc = "polling" /\ pc' = "handled" /\ last'.handler = h

(***************************************************************************)
(* C1. Round trip of the selection protocol: in one process run, every     *)
(* token start() issued for a listed name n decodes to n, directly for a   *)
(* V: token and through video_hash_map for an H: token, at the listing and *)
(* at every later click.                                                   *)
(***************************************************************************)
C1_RoundTrip ==
    /\ \A t \in issued :
          t.live => Decode(t.data, video_hash_map) =
                        [ok |-> TRUE, name |-> t.name, why |-> "none"]
    /\ Listing =>
          \A i \in 1..Len(Buttons) :
             Decode(Buttons[i].data, video_hash_map) =
                 [ok |-> TRUE, name |-> Buttons[i].text, why |-> "none"]
    /\ \A n \in DOMAIN files :
          (EndsWith(n, MP4) /\ Len(n) + 2 <= MaxData)
              => Decode(Encode(n), video_hash_map).name = n
    /\ Handled("callback_query_handler") =>
          /\ \A t \in issued :
                (t.live /\ last.arg = Some(t.data)) => last.name = Some(t.name)
          /\ \A n \in DOMAIN files :
                last.arg = Some(<<"V", ":">> \o n) => last.name = Some(n)

\* a click on the H: button of the 59-character name sent the file
C1_Witness ==
    /\ Handled("callback_query_handler")
    /\ last.arg = Some(<<"H", ":">> \o hexdigest(Name59))
    /\ last.name = Some(Name59)
    /\ last.reply = "video"
    /\ Name64 \in DOMAIN files

(***************************************************************************)
(* C2. Every selection token start() issues, direct or indirect, is at     *)
(* most 60 characters long.                                                *)
(***************************************************************************)
C2_TokenWithinCeiling ==
    Listing => \A i \in 1..Len(Buttons) : Len(Buttons[i].data) <= 60

(***************************************************************************)
(* C3. Direct/indirect split on the prefixed length: a listed name n with  *)
(* len("V:" + n) <= 60 gets "V:" + n; a longer one gets "H:" + hash(n),    *)
(* and right after the listing video_hash_map[hash(n)] = n.  A name of 58  *)
(* characters is direct, one of 59 is indirect.                            *)
(***************************************************************************)
C3_DirectIndirectSplit ==
    Listing =>
       /\ Len(Buttons) = Cardinality({n \in DOMAIN files : EndsWith(n, MP4)})
       /\ \A i \in 1..Len(Buttons) :
             LET n == Buttons[i].text
                 data == Buttons[i].data
             IN /\ n \in DOMAIN files
                /\ Len(n) <= 58 => data = <<"V", ":">> \o n
                /\ Len(n) >= 59 =>
                      /\ data = <<"H", ":">> \o hexdigest(n)
                      /\ hexdigest(n) \in DOMAIN video_hash_map
                      /\ video_hash_map[hexdigest(n)] = n

\* one listing holds the 58-character name and the 59-character name
C3_Witness ==
    /\ Listing
    /\ \E i, j \in 1..Len(Buttons) :
          /\ Buttons[i].text = Name58 /\ Buttons[i].data = <<"V", ":">> \o Name58
          /\ Buttons[j].text = Name59 /\ StartsWith(Buttons[j].data, <<"H", ":">>)

(***************************************************************************)
(* C4. No upload overwrites an existing file: every file the directory     *)
(* held before an upload's write is there with the same content after it,  *)
(* also when a file appeared between the existence check and the write.    *)
(***************************************************************************)
C4_NoOverwrite ==
    [][(pc = "downloading" /\ pc' = "handled")
          => \A n \in DOMAIN files : n \in DOMAIN files' /\ files'[n] = files[n]]_vars

(***************************************************************************)
(* C5. The destination the collision loop chooses does not exist in the    *)
(* directory at the instant it is chosen, and a candidate leaf name that   *)
(* does not exist is chosen unchanged.                                     *)
(***************************************************************************)
C5_ReservedNameIsFree ==
    [][Reserves =>
          /\ DestThen \notin DOMAIN files
          /\ (LeafThen \notin DOMAIN files => DestThen = LeafThen)]_vars

\* a.mp4 exists and the upload of a.mp4 reserved a_1.mp4
C5_Witness ==
    /\ pc = "downloading"
    /\ TheLeaf = NameA
    /\ NameA \in DOMAIN files
    /\ last.name = Some(NameA1)

(***************************************************************************)
(* C6. Deterministic collision numbering: when the candidate stem+ext      *)
(* exists, the destination is stem_k+ext for the smallest k >= 1 that is   *)
(* free, found within as many probes as the catalog has files plus one;    *)
(* with a.mp4 present an upload of a.mp4 goes to a_1.mp4, and with a.mp4   *)
(* and a_1.mp4 present to a_2.mp4.                                         *)
(***************************************************************************)
C6_SmallestFreeCounter ==
    [][(Reserves /\ LeafThen \in DOMAIN files) =>
          /\ \E k \in 1..(Cardinality(DOMAIN files) + 1) :
                /\ DestThen = Numbered(LeafThen, k)
                /\ Numbered(LeafThen, k) \notin DOMAIN files
                /\ \A j \in 1..(k - 1) : Numbered(LeafThen, j) \in DOMAIN files
          /\ (LeafThen = NameA /\ NameA1 \notin DOMAIN files) => DestThen = NameA1
          /\ (LeafThen = NameA /\ NameA1 \in DOMAIN files /\ NameA2 \notin DOMAIN files)
                => DestThen = NameA2]_vars

\* the third upload of a.mp4 was saved as a_2.mp4
C6_Witness ==
    /\ Handled("receive_upload")
    /\ last.reply = "saved"
    /\ TheLeaf = NameA
    /\ last.name = Some(NameA2)
    /\ {NameA, NameA1, NameA2} \subseteq DOMAIN files

(***************************************************************************)
(* C7. A user who is not the admin and sends /upload is denied and gets no *)
(* session; an attachment that user sends is not processed as an upload;   *)
(* neither changes the catalog.                                            *)
(***************************************************************************)
C7_NonAdminCannotUpload ==
    [][(pc = "polling" /\ pc' # "polling" /\ last'.user # ADMIN_ID) =>
          /\ pc' = "handled"
          /\ files' = files
          /\ conv'[last'.user] = "Idle"
          /\ last'.update = "/upload" =>
                last'.handler = "upload_entry" /\ last'.reply = "not_authorized_upload"
          /\ last'.update = "attachment" =>
                last'.handler = "none" /\ last'.reply = "none"]_vars

\* the other user has just been denied /upload
C7_Witness ==
    /\ Handled("upload_entry")
    /\ last.user # ADMIN_ID
    /\ last.reply = "not_authorized_upload"
    /\ conv[last.user] = "Idle"

(***************************************************************************)
(* C8. Size gate: in AwaitingFile an attachment that passes the type gate  *)
(* and declares more than 50*1024*1024 bytes is rejected, nothing is       *)
(* written and the session becomes Idle; one of exactly 50*1024*1024 bytes *)
(* is not rejected by this gate.                                           *)
(***************************************************************************)
C8_SizeGate ==
    [][(pc = "polling" /\ pc' # "polling" /\ last'.handler = "receive_upload"
            /\ ~TypeRejected(Get(last'.arg)) /\ ~IsNone(Get(last'.arg).file_size)) =>
          LET declared == Get(Get(last'.arg).file_size)
          IN /\ declared > MiB50 =>
                   /\ last'.reply = "file_too_large"
                   /\ pc' = "handled"
                   /\ files' = files
                   /\ conv'[last'.user] = "Idle"
             /\ declared = MiB50 => last'.reply # "file_too_large"]_vars

\* an a.mp4 of 50 MiB + 1 has just been rejected
C8_Witness ==
    /\ Handled("receive_upload")
    /\ last.reply = "file_too_large"
    /\ TheAtt.file_size = Some(MiB50 + 1)
    /\ conv[last.user] = "Idle"

(***************************************************************************)
(* C9. Type gate, a non-terminal rejection.  As claimed: every attachment  *)
(* whose candidate name does not end in .mp4 and whose declared MIME type  *)
(* does not indicate video is rejected as unsupported and the session      *)
(* stays AwaitingFile.                                                     *)
(***************************************************************************)
NotMp4NotVideoMime(att) ==
    /\ ~EndsWith(Lower(OriginalName(att)), <<".", "m", "p", "4">>)
    /\ (IsNone(att.mime_type) \/ ~StartsWith(Get(att.mime_type), <<"v", "i", "d", "e", "o">>))

C9_EveryAttachmentTypeGated ==
    (Handled("receive_upload") /\ NotMp4NotVideoMime(TheAtt)) =>
        /\ last.reply = "only_mp4"
        /\ conv[last.user] = "AwaitingFile"

(***************************************************************************)
(* C9 as amended: every document attachment whose candidate name does not  *)
(* end in .mp4 (in any letter case) and whose declared MIME type does not  *)
(* indicate video is rejected as unsupported, nothing is written, and the  *)
(* session stays AwaitingFile, so that the next attachment of that user is *)
(* handled by receive_upload without a new /upload.                        *)
(***************************************************************************)
C9_DocumentTypeGate ==
    [][/\ (pc = "polling" /\ pc' # "polling" /\ last'.handler = "receive_upload"
              /\ Get(last'.arg).kind = "document" /\ NotMp4NotVideoMime(Get(last'.arg))) =>
             /\ last'.reply = "only_mp4"
             /\ pc' = "handled"
             /\ files' = files
             /\ conv'[last'.user] = "AwaitingFile"
       /\ (pc = "polling" /\ pc' # "polling" /\ last'.update = "attachment"
              /\ conv[last'.user] = "AwaitingFile") =>
             last'.handler = "receive_upload"]_vars

\* a.mov with a text MIME type has just been rejected, the session goes on
C9_Witness ==
    /\ Handled("receive_upload")
    /\ last.reply = "only_mp4"
    /\ TheAtt.kind = "document"
    /\ TheAtt.file_name = Some(NameMov)
    /\ conv[last.user] = "AwaitingFile"

(***************************************************************************)
(* C10. Send ceiling: a click that names an existing file of more than     *)
(* 50 MiB is answered with a refusal and no transfer is attempted; a       *)
(* transfer is attempted only for a file that exists and is at most 50 MiB *)
(* when it is selected.                                                    *)
(***************************************************************************)
C10_SendCeiling ==
    Handled("callback_query_handler") =>
       LET attempted == last.reply \in {"video", "failed_to_send"}
       IN /\ attempted => ~IsNone(last.name)
          /\ ~IsNone(last.name) =>
                LET n == Get(last.name)
                IN /\ (n \in DOMAIN files /\ files[n] > MiB50)
                         => last.reply = "larger_than_50MB"
                   /\ attempted => (n \in DOMAIN files /\ files[n] <= MiB50)

\* a click on the button of a file of 50 MiB + 1 has just been refused
C10_Witness ==
    /\ Handled("callback_query_handler")
    /\ last.reply = "larger_than_50MB"
    /\ ~IsNone(last.name)
    /\ Get(last.name) \in DOMAIN files
    /\ files[Get(last.name)] = MiB50 + 1

(***************************************************************************)
(* C11. The upload write is all-or-nothing: when the download or the write *)
(* of an accepted attachment fails, the directory is as it was before, so  *)
(* that no listing sees a partial file under the reserved name.            *)
(***************************************************************************)
C11_FailedWriteLeavesNothing ==
    [][(pc = "downloading" /\ last'.reply = "failed_to_save") => files' = files]_vars

(***************************************************************************)
(* C12. Path-traversal defence: whatever file name the attachment carries, *)
(* directory separators and parent components included, the destination   *)
(* receive_upload writes to is a direct child of the video directory, and  *)
(* the directory never holds anything else.                                *)
(***************************************************************************)
\* n names a direct child of a directory: one non-empty component that is
\* neither the directory itself nor its parent
IsChildName(n) ==
    /\ n \notin {<<>>, <<".">>, <<".", ".">>}
    /\ \A i \in 1..Len(n) : n[i] # "/"

\* file names a sender can put in the metadata
CandidateNames ==
    { NameA, NameTraversal, <<>>, <<".">>, <<".", ".">>, <<"/">>,
      <<"/">> \o NameA, NameA \o <<"/">>, NameA \o <<"/", ".", ".">>,
      <<".", ".", "/", ".", ".", "/">> \o NameMov, <<"a", "/", ".", "/">> \o NameA,
      <<".", ".", "/", ".", ".">> }

C12_WrittenInsideDirectory ==
    /\ \A s \in CandidateNames : IsChildName(ReserveDestination(PathName(s), files))
    /\ pc = "downloading" => IsChildName(Get(last.name))
    /\ \A n \in DOMAIN files : IsChildName(n)

\* ../a.mp4 has just been saved, as a child of the directory
C12_Witness ==
    /\ Handled("receive_upload")
    /\ last.reply = "saved"
    /\ TheAtt.file_name = Some(NameTraversal)
    /\ Get(last.name) \in DOMAIN files
    /\ IsChildName(Get(last.name))

(***************************************************************************)
(* C13. Re-entry: /upload from the admin while the admin's session is      *)
(* AwaitingFile emits the upload prompt again, and nothing else, and the   *)
(* session is AwaitingFile afterwards.                                     *)
(***************************************************************************)
C13_ReentryReprompts ==
    [][(pc = "polling" /\ pc' # "polling" /\ last'.update = "/upload"
            /\ last'.user = ADMIN_ID /\ conv[ADMIN_ID] = "AwaitingFile") =>
          /\ last'.handler = "upload_entry"
          /\ last'.reply = "prompt"
          /\ conv'[ADMIN_ID] = "AwaitingFile"]_vars

C15_DownloadFailureIsTerminal ==
    [][/\ (last'.reply = "failed_to_save" /\ last.reply # "failed_to_save") =>
             /\ pc \in {"polling", "downloading"}
             /\ pc' = "handled"
             /\ last'.handler = "receive_upload"
             /\ conv'[last'.user] = "Idle"
       /\ (last.reply = "failed_to_save" /\ pc = "handled") =>
             /\ pc' = "polling"
             /\ files' = files
             /\ conv' = conv]_vars

\* the write to the reserved name has just failed
C15_Witness ==
    /\ Handled("receive_upload")
    /\ last.reply = "failed_to_save"
    /\ ~IsNone(last.name)
    /\ pc = "handled"
    /\ conv[last.user] = "Idle"

(***************************************************************************)
(* C16. No dangling registrations: in every reachable state every entry    *)
(* hash -> name of video_hash_map names a file the video directory holds.  *)
(***************************************************************************)
C16_NoDanglingRegistration ==
    \A h \in DOMAIN video_hash_map : video_hash_map[h] \in DOMAIN files

(***************************************************************************)
(* C17. A stale indirect token: a click on an H: button issued before a    *)
(* restart, made before a listing has registered its hash again, is        *)
(* answered with the "can't find that video anymore" reply and nothing is  *)
(* sent; once a listing with the same long name has been rendered again,   *)
(* a click on the same button resolves to that name.                       *)
(***************************************************************************)
\* the button t is of an earlier process run and no listing of this run has
\* issued its token again
Stale(t) == ~t.live /\ ~\E x \in issued : x.live /\ x.data = t.data

C17_StaleTokenAfterRestart ==
    Handled("callback_query_handler") =>
       \A t \in issued :
          last.arg = Some(t.data) =>
             /\ Stale(t) => (last.reply = "cannot_find" /\ IsNone(last.name))
             /\ ~Stale(t) => (last.name = Some(t.name) /\ last.reply # "cannot_find")

\* a button of the run before the restart has just been clicked
C17_Witness ==
    /\ Handled("callback_query_handler")
    /\ last.reply = "cannot_find"
    /\ \E t \in issued : Stale(t) /\ last.arg = Some(t.data) /\ t.name \in DOMAIN files

(***************************************************************************)
(* C18. Cancel: /cancel from the admin while the admin's session is        *)
(* AwaitingFile is acknowledged, the session becomes Idle, and the         *)
(* directory and video_hash_map are unchanged; an attachment that arrives  *)
(* while the sender's session is Idle is not processed as an upload.       *)
(***************************************************************************)
C18_CancelEndsSession ==
    [][/\ (pc = "polling" /\ pc' # "polling" /\ last'.update = "/cancel"
              /\ last'.user = ADMIN_ID /\ conv[ADMIN_ID] = "AwaitingFile") =>
             /\ last'.handler = "cancel"
             /\ last'.reply = "cancelled"
             /\ pc' = "handled"
             /\ conv'[ADMIN_ID] = "Idle"
             /\ files' = files
             /\ video_hash_map' = video_hash_map
       /\ (pc = "polling" /\ pc' # "polling" /\ last'.update = "attachment"
              /\ conv[last'.user] = "Idle") =>
             /\ last'.handler = "none"
             /\ pc' = "handled"
             /\ files' = files]_vars

\* the admin's /cancel has just been acknowledged
C18_Witness ==
    /\ Handled("cancel")
    /\ last.user = ADMIN_ID
    /\ last.reply = "cancelled"
    /\ conv[ADMIN_ID] = "Idle"

(***************************************************************************)
(* C19. Every file a successful upload saved is returned by list_videos(), *)
(* whatever admitted it through the type gate: the .mp4 extension in any   *)
(* letter case, or a video MIME type.                                      *)
(***************************************************************************)
C19_SavedFilesAreListed ==
    (Handled("receive_upload") /\ last.reply = "saved") =>
        \E i \in 1..Len(list_videos(files)) : list_videos(files)[i] = Get(last.name)

(***************************************************************************)
(* C20. The directory is written only by the download of an attachment the *)
(* admin sent while the admin's session was AwaitingFile and that passed   *)
(* both gates, and that download adds at most one file and removes none;   *)
(* every other step of the bot (/upload, /cancel, /start, a click, a       *)
(* rejected attachment, any other command) leaves the directory as it was. *)
(***************************************************************************)
C20_OnlyAcceptedUploadsWrite ==
    [][pc' # pc =>
          IF pc = "downloading"
          THEN /\ last.user = ADMIN_ID
               /\ last.handler = "receive_upload"
               /\ conv[ADMIN_ID] = "AwaitingFile"
               /\ ~NotMp4NotVideoMime(TheAtt) \/ TheAtt.kind = "video"
               /\ IsNone(TheAtt.file_size) \/ Get(TheAtt.file_size) <= MiB50
               /\ DOMAIN files \subseteq DOMAIN files'
               /\ DOMAIN files' \subseteq DOMAIN files \cup {Get(last.name)}
               /\ \A n \in DOMAIN files \ {Get(last.name)} : files'[n] = files[n]
          ELSE files' = files]_vars

\* an accepted upload has just added its one file to the directory
C20_Witness ==
    /\ Handled("receive_upload")
    /\ pc = "handled"
    /\ last.user = ADMIN_ID
    /\ last.reply = "saved"
    /\ Get(last.name) \in DOMAIN files
    /\ files[Get(last.name)] = TheAtt.bytes

=============================================================================
